---- MODULE Spec2Model ----
(***************************************************************************)
(* The payment path of the SecurePay demo: the PaymentForm page            *)
(* (src/unnamed/part_006), the ConfirmDialog (src/src/components/          *)
(* Dialog.tsx) and the Hono worker's /api/transactions endpoints           *)
(* (src/unnamed/part_002), with the transactions table of                  *)
(* src/migrations/1.sql.                                                   *)
(*                                                                         *)
(* Strings the code inspects character by character (amount, SWIFT code,   *)
(* recipient account) are sequences of one-character strings.  Amounts     *)
(* are exact decimals counted in thousandths (1000.00 is 1000000), so a    *)
(* third fractional digit is representable; inputs carry at most three.    *)
(***************************************************************************)
EXTENDS Integers, Sequences, FiniteSets, TLC

(* ------------------------------ bounds -------------------------------- *)

\* POST /api/transactions requests sent in one behaviour
MaxRequests == 2
\* how far Date.now() advances in one behaviour
MaxClock == 1
\* LiveChat sendMessage calls in one behaviour
MaxSends == 2
\* how far the clock advances while the chat is used
MaxChatClock == 1
\* render passes of one update that React is followed through
MaxRenders == 3

(* ---------------------------- characters ------------------------------ *)

UpperSeq == <<"A","B","C","D","E","F","G","H","I","J","K","L","M",
              "N","O","P","Q","R","S","T","U","V","W","X","Y","Z">>
LowerSeq == <<"a","b","c","d","e","f","g","h","i","j","k","l","m",
              "n","o","p","q","r","s","t","u","v","w","x","y","z">>
DigitSeq == <<"0","1","2","3","4","5","6","7","8","9">>

Range(f) == { f[i] : i \in DOMAIN f }

\* the regex classes [A-Z], [0-9] and [A-Z0-9]
ClassAZ == Range(UpperSeq)
Class09 == Range(DigitSeq)
ClassAZ09 == ClassAZ \cup Class09

\* String.prototype.toUpperCase, one character
UpperChar(ch) ==
  IF \E i \in DOMAIN LowerSeq : LowerSeq[i] = ch
  THEN UpperSeq[CHOOSE i \in DOMAIN LowerSeq : LowerSeq[i] = ch]
  ELSE ch

\* String.prototype.toUpperCase
toUpperCase(s) == [ i \in DOMAIN s |-> UpperChar(s[i]) ]

\* String.prototype.trim, decided only as far as the code uses it: !s.trim()
IsBlank(s) == \A i \in DOMAIN s : s[i] = " "

(* ------------------------------ amounts ------------------------------- *)

\* a JavaScript number: a decimal in thousandths, or NaN (parseFloat yields
\* NaN when no number starts the string; JSON.stringify sends NaN as null)
Num(v) == [isNum |-> TRUE, v |-> v]
NaN == [isNum |-> FALSE, v |-> 0]

DigitValue(ch) == (CHOOSE i \in DOMAIN DigitSeq : DigitSeq[i] = ch) - 1

\* length of the longest prefix of s, from index i on, made of digits
RECURSIVE DigitRun(_, _)
DigitRun(s, i) ==
  IF i <= Len(s) /\ s[i] \in Class09 THEN 1 + DigitRun(s, i + 1) ELSE 0

\* value of the digits s[i..j] read as a decimal integer
RECURSIVE DigitsToInt(_, _, _)
DigitsToInt(s, i, j) ==
  IF j < i THEN 0 ELSE DigitsToInt(s, i, j - 1) * 10 + DigitValue(s[j])

Pow10(n) == CASE n = 0 -> 1 [] n = 1 -> 10 [] n = 2 -> 100 [] OTHER -> 1000

\* parseFloat: optional sign, digits, optional fraction; the longest valid
\* prefix counts, NaN when there is none.  The result is in thousandths.
parseFloat(s) ==
  LET neg   == Len(s) >= 1 /\ s[1] = "-"
      start == IF neg \/ (Len(s) >= 1 /\ s[1] = "+") THEN 2 ELSE 1
      nInt  == DigitRun(s, start)
      dot   == start + nInt
      hasFr == dot <= Len(s) /\ s[dot] = "."
      nFr   == IF hasFr THEN DigitRun(s, dot + 1) ELSE 0
      whole == DigitsToInt(s, start, start + nInt - 1)
      frac  == DigitsToInt(s, dot + 1, dot + nFr)
      mag   == whole * 1000 + frac * Pow10(3 - nFr)
  IN IF nInt + nFr = 0 THEN NaN
     ELSE IF neg THEN Num(0 - mag) ELSE Num(mag)

(* ----------------------- the server's validator ----------------------- *)

Currencies == {"USD", "EUR", "ZAR", "GBP", "JPY"}

MsgPositive == "Amount must be positive"
MsgDecimals == "Amount can have at most 2 decimal places"
MsgNumber == "Expected number"
MsgEnum == "Invalid enum value"
MsgAccount == "Recipient account is required"
MsgSwift == "Invalid SWIFT code format"

\* s[from .. from+n-1] exists and lies in the class
MatchN(s, from, n, class) ==
  /\ from + n - 1 <= Len(s)
  /\ \A i \in from..(from + n - 1) : s[i] \in class

\* the pattern without its end anchor: /^[A-Z]{6}[A-Z0-9]{2}([A-Z0-9]{3})?/
SwiftRegexTest_Unanchored(s) ==
  /\ MatchN(s, 1, 6, ClassAZ)
  /\ MatchN(s, 7, 2, ClassAZ09)

\* /^[A-Z]{6}[A-Z0-9]{2}([A-Z0-9]{3})?$/.test(s)
SwiftRegexTest(s) ==
  /\ MatchN(s, 1, 6, ClassAZ)
  /\ MatchN(s, 7, 2, ClassAZ09)
  /\ \/ Len(s) = 8
     \/ MatchN(s, 9, 3, ClassAZ09) /\ Len(s) = 11

Issue(p, m) == [path |-> p, message |-> m]

\* z.number().positive(..) alone, without the multipleOf(0.01) check
AmountIssues_NoMultipleOf(a) ==
  IF ~a.isNum THEN { Issue("amount", MsgNumber) }
  ELSE (IF a.v > 0 THEN {} ELSE { Issue("amount", MsgPositive) })

\* z.number().positive(..).multipleOf(0.01, ..): every failed check reports
AmountIssues(a) ==
  IF ~a.isNum THEN { Issue("amount", MsgNumber) }
  ELSE (IF a.v > 0 THEN {} ELSE { Issue("amount", MsgPositive) })
       \cup (IF a.v % 10 = 0 THEN {} ELSE { Issue("amount", MsgDecimals) })

\* the limits of the validator the architecture notes document:
\* .max(50000, ..) and /^[0-9]{8,12}$/
MaxAmount == 50000
AccountMinLen == 8
AccountMaxLen == 12

\* PaymentSchema.safeParse(body): the issues of every field
PaymentSchema(body) ==
  AmountIssues(body.amount)
  \cup (IF body.currency \in Currencies THEN {} ELSE { Issue("currency", MsgEnum) })
  \cup (IF Len(body.recipient_account) >= 1 THEN {}
        ELSE { Issue("recipient_account", MsgAccount) })
  \cup (IF SwiftRegexTest(body.swift_code) THEN {}
        ELSE { Issue("swift_code", MsgSwift) })

(* ------------------------------- state -------------------------------- *)

VARIABLES
  now,            \* Date.now() on the worker, in ms since the first state
  transactions,   \* rows of the transactions table (migrations/1.sql)
  requests,       \* every POST /api/transactions sent, with its progress
  sessionCookie,  \* the browser holds a session_token cookie
  listing,        \* Dashboard: the transaction ids of the last OK GET
  lastCall,       \* the last call an API client made, and its answer
  formData,       \* PaymentForm state, as are the six below
  errors,
  error,
  isLoading,
  showConfirmDialog,
  showSuccessDialog,
  transactionId,
  clicked,        \* the ConfirmDialog button the user activated last
  user,           \* AuthProvider: null or the signed-in user
  isPending,      \* AuthProvider: the auth check of this mount is not done
  calls,          \* the client's async functions in flight, by function
  sinceLogout,    \* "no", or whether logout() completed in this page load
                  \* ("done") or an earlier one ("before"), no login() since
  location,       \* the router's path
  redirected,     \* the last navigation was a page effect's navigate("/login")
  pageIsLoading,  \* isLoading of the mounted Dashboard or Profile
  pageError,      \* that page's error is set
  notifications,  \* NotificationCenter: the status of each notification held
  activeTab,
  notificationsOpen,     \* its isOpen prop
  notificationsLoading,  \* its isLoading
  notificationCalls,     \* its markAsRead and archiveNotification in flight
  messages,       \* LiveChat: the message list
  newMessage,     \* the text in its message box
  chatOpen,       \* its isOpen prop
  chatIsLoading,  \* its isLoading
  isTyping,
  chatCalls,      \* its sendMessage calls in flight
  chatTimers,     \* the setTimeout callbacks of sendMessage still to run
  chatDone,       \* the sendMessage call that ended last, and how
  chatNow,        \* Date.now() while the chat is used
  theme,          \* ThemeProvider: 'light', 'dark' or 'auto'
  isDark,
  themeEffectDue, \* its effect has not run since theme was set
  themeListener,  \* its handleChange listens to the system's colour scheme
  savedTheme,     \* localStorage's theme
  rootDark,       \* the document root has the class dark
  systemDark,     \* the system prefers a dark colour scheme
  showProfileForm,            \* Register state, as are the two below
  registerShowSuccessDialog,  \* its showSuccessDialog
  registerIsLoading,          \* its isLoading
  registerSigningUp,  \* its handleGoogleSignUp awaits redirectToLogin()
  registerCall,       \* the fetch its handleSubmitProfile awaits
  registerRendered,   \* the state its committed output was rendered from
  registerRenders     \* passes of the current render that updated state

formVars == <<formData, errors, error, isLoading, showConfirmDialog,
              showSuccessDialog, transactionId, clicked>>

serverVars == <<now, transactions, requests>>

authVars == <<user, isPending, calls, sinceLogout, location, redirected,
              pageIsLoading, pageError>>

\* the state outside the payment pages and the worker's requests
notificationVars == <<notifications, activeTab, notificationsOpen,
                      notificationsLoading, notificationCalls>>

chatVars == <<messages, newMessage, chatOpen, chatIsLoading, isTyping,
              chatCalls, chatTimers, chatDone, chatNow>>

themeVars == <<theme, isDark, themeEffectDue, themeListener, savedTheme,
               rootDark, systemDark>>

registerVars == <<showProfileForm, registerShowSuccessDialog,
                  registerCall, registerRendered, registerRenders>>

\* what of Register the end of a login() it awaits sets
signUpVars == <<registerIsLoading, registerSigningUp>>

uiVars == <<authVars, notificationVars, chatVars, themeVars, registerVars,
            signUpVars>>

\* what the actions of AuthProvider and the protected pages leave alone
nonLoginVars ==
  <<serverVars, listing, lastCall, formVars, notificationVars, chatVars,
    themeVars>>

nonAuthVars == <<nonLoginVars, registerVars, signUpVars>>

\* what a page load, which mounts the providers anew, leaves alone: the
\* worker, the API clients and the components modelled apart from them
nonProviderVars ==
  <<serverVars, listing, lastCall, formVars, notificationVars, chatVars,
    registerVars, signUpVars>>

\* what the actions of NotificationCenter leave alone
nonNotificationVars ==
  <<serverVars, sessionCookie, listing, lastCall, formVars, authVars, chatVars,
    themeVars, registerVars, signUpVars>>

\* what the actions of LiveChat leave alone
nonChatVars ==
  <<serverVars, sessionCookie, listing, lastCall, formVars, authVars,
    notificationVars, themeVars, registerVars, signUpVars>>

\* what the actions of ThemeProvider leave alone
nonThemeVars ==
  <<serverVars, sessionCookie, listing, lastCall, formVars, authVars,
    notificationVars, chatVars, registerVars, signUpVars>>

\* what the actions of Register leave alone
nonRegisterVars ==
  <<serverVars, sessionCookie, listing, lastCall, formVars, authVars,
    notificationVars, chatVars, themeVars>>

\* request headers an API client may send; the handler reads none of them
NoKey == "none"

\* Math.random().toString(36).substr(2, 6).toUpperCase(), two outcomes
RandomSuffixes == {"4FZYO8", "K3J2M1"}

NoId == [ts |-> 0 - 1, suffix |-> ""]

\* `TXN${Date.now()}${suffix}`: the timestamp has a fixed width, so two ids
\* are equal exactly when timestamp and suffix are
TransactionId(ts, suffix) == [ts |-> ts, suffix |-> suffix]

\* the single mock user every session resolves to
mockUser == [id |-> "1", email |-> "user@example.com"]

\* GET /api/transactions: the fixed list, whatever was posted before
mockTransactions ==
  << [id |-> 1, user_id |-> mockUser.id,
      transaction_id |-> TransactionId(123456789, ""),
      amount |-> Num(1000000), currency |-> "USD", status |-> "Sent"] >>

getTransactions(cookie) ==
  IF cookie THEN [status |-> 200, body |-> mockTransactions]
  ELSE [status |-> 401, body |-> << >>]

NewRequest(origin, cookie, key, body) ==
  [origin |-> origin, cookie |-> cookie, key |-> key, body |-> body,
   stage |-> "sent", status |-> 0, transaction_id |-> NoId,
   issues |-> {}, data |-> << >>, peers |-> {}]

InHandler == { j \in DOMAIN requests : requests[j].stage = "handler" }

\* authMiddleware, then zValidator("json", PaymentSchema): 401 without the
\* cookie, 400 with the issues when the body fails the schema, else the
\* handler is entered (peers: the requests inside the handler at that time)
middleware(i) ==
  /\ i \in DOMAIN requests
  /\ requests[i].stage = "sent"
  /\ LET r == requests[i]
         iss == PaymentSchema(r.body)
     IN requests' = [requests EXCEPT ![i] =
          IF ~r.cookie
          THEN [r EXCEPT !.stage = "responded", !.status = 401]
          ELSE IF iss # {}
          THEN [r EXCEPT !.stage = "responded", !.status = 400, !.issues = iss]
          ELSE [r EXCEPT !.stage = "handler", !.peers = InHandler]]
  /\ UNCHANGED <<now, transactions, sessionCookie, listing, lastCall, formVars, uiVars>>

\* app.post("/api/transactions"): a fresh id from the clock and a random
\* suffix; nothing is looked up and nothing is saved
postTransactions(i, suffix) ==
  /\ i \in DOMAIN requests
  /\ requests[i].stage = "handler"
  /\ requests' = [requests EXCEPT ![i] =
        [@ EXCEPT !.stage = "responded", !.status = 200,
                  !.transaction_id = TransactionId(now, suffix),
                  !.data = << requests[i].body >>]]
  /\ UNCHANGED <<now, transactions, sessionCookie, listing, lastCall, formVars, uiVars>>

\* the worker's clock advances
Tick ==
  /\ now < MaxClock
  /\ now' = now + 1
  /\ UNCHANGED <<transactions, requests, sessionCookie, listing, lastCall, formVars, uiVars>>

\* the routes registered with authMiddleware
AuthRoutes ==
  { "GET /api/profile", "POST /api/profile", "POST /api/profile/delete",
    "POST /api/profile/verify-phone", "POST /api/profile/kyc-upload",
    "GET /api/transactions", "POST /api/transactions",
    "GET /api/account/balance", "GET /api/transactions/analytics",
    "GET /api/activity", "GET /api/reports/monthly", "GET /api/reports/tax",
    "GET /api/reports/custom", "GET /api/audit-log", "GET /api/notifications",
    "POST /api/notifications/:id/read", "POST /api/notifications/:id/archive",
    "POST /api/notifications/settings", "GET /api/chat/history",
    "POST /api/chat/send", "GET /api/support/tickets",
    "POST /api/support/tickets", "POST /api/support/tickets/:id/messages",
    "POST /api/verification/identity", "GET /api/verification/status",
    "GET /api/risk/assessment", "GET /api/compliance/reports",
    "POST /api/legal/terms/accept", "GET /api/legal/terms/status",
    "POST /api/legal/privacy/consent", "GET /api/legal/privacy/consents",
    "POST /api/data/export", "GET /api/data/export/:id" }

\* the routes registered without it
PlainRoutes ==
  { "GET /api/users/me", "POST /api/login", "GET /api/logout",
    "GET /api/faq", "POST /api/faq/:id/vote" }

Routes == AuthRoutes \cup PlainRoutes

NoCall == [route |-> "none", cookie |-> FALSE, status |-> 0, served |-> FALSE]

\* the answer to a well-formed request to a route, with or without the
\* session_token cookie: its status, and whether the route's own answer
\* was served
respond(route, cookie) ==
  IF route \in AuthRoutes \/ route = "GET /api/users/me"
  THEN IF cookie THEN [status |-> 200, served |-> TRUE]
       ELSE [status |-> 401, served |-> FALSE]
  ELSE [status |-> 200, served |-> TRUE]

Answered(route, cookie) ==
  [route |-> route, cookie |-> cookie,
   status |-> respond(route, cookie).status,
   served |-> respond(route, cookie).served]

\* POST /api/login sets the cookie
apiLogin ==
  /\ sessionCookie' = TRUE
  /\ lastCall' = Answered("POST /api/login", sessionCookie)
  /\ UNCHANGED <<serverVars, listing, formVars, uiVars>>

\* a GET /api/logout that answers without touching the cookie
apiLogout_KeepsCookie ==
  /\ lastCall' = Answered("GET /api/logout", sessionCookie)
  /\ UNCHANGED <<serverVars, sessionCookie, listing, formVars, uiVars>>

\* GET /api/logout clears the cookie
apiLogout ==
  /\ sessionCookie' = FALSE
  /\ lastCall' = Answered("GET /api/logout", sessionCookie)
  /\ UNCHANGED <<serverVars, listing, formVars, uiVars>>

\* the browser calls any other route, sending the cookie if it holds one
apiCall(route) ==
  /\ lastCall' = Answered(route, sessionCookie)
  /\ UNCHANGED <<serverVars, sessionCookie, listing, formVars, uiVars>>

(* ---------------------------- API clients ----------------------------- *)

Chars(n, ch) == [ i \in 1..n |-> ch ]

SwiftValid8 == <<"A","B","C","D","U","S","3","3">>
SwiftValid11 == SwiftValid8 \o <<"X","X","X">>
SwiftLower8 == <<"a","b","c","d","u","s","3","3">>
SwiftShort == <<"A","B","1","2">>
SwiftTen == SwiftValid8 \o <<"X","X">>
SwiftDigitCountry == <<"A","B","C","D","1","2","3","3">>

Account8 == <<"1","2","3","4","5","6","7","8">>

ValidBody ==
  [amount |-> Num(1000000), currency |-> "USD", recipient_account |-> Account8,
   swift_code |-> SwiftValid8, reference |-> << >>]

\* the invalid bodies an API client sends: the valid one changed in one field
InvalidBodies ==
  { [ValidBody EXCEPT !.amount = Num(10005)],
    [ValidBody EXCEPT !.amount = Num(0 - 5000)],
    [ValidBody EXCEPT !.amount = NaN],
    [ValidBody EXCEPT !.currency = "XXX"],
    [ValidBody EXCEPT !.recipient_account = << >>],
    [ValidBody EXCEPT !.swift_code = SwiftLower8],
    [ValidBody EXCEPT !.swift_code = SwiftShort],
    [ValidBody EXCEPT !.swift_code = SwiftTen],
    [ValidBody EXCEPT !.swift_code = SwiftDigitCountry] }

\* bodies that break only a rule of the documented validator: an amount
\* above the maximum, an account that is neither digits nor 8 to 12 long
AccountLetters == <<"1","2","A","B">>
LooseBodies ==
  { [ValidBody EXCEPT !.amount = Num(MaxAmount * 1000 + 10)],
    [ValidBody EXCEPT !.recipient_account = AccountLetters] }

Call(cookie, key, body) == [cookie |-> cookie, key |-> key, body |-> body]

\* the calls API clients make: valid payments with and without an
\* idempotency key, the same key with another amount, a call without the
\* session cookie, and every invalid body
ApiCalls ==
  { Call(TRUE, "key-1", ValidBody),
    Call(TRUE, NoKey, ValidBody),
    Call(TRUE, "key-1", [ValidBody EXCEPT !.amount = Num(500000)]),
    Call(TRUE, NoKey, [ValidBody EXCEPT !.swift_code = SwiftValid11]),
    Call(FALSE, "key-1", ValidBody) }
  \cup { Call(TRUE, NoKey, b) : b \in InvalidBodies \cup LooseBodies }

\* any client of the API sends POST /api/transactions
apiPost(call) ==
  /\ Len(requests) < MaxRequests
  /\ requests' = Append(requests, NewRequest("api", call.cookie, call.key, call.body))
  /\ UNCHANGED <<now, transactions, sessionCookie, listing, lastCall, formVars, uiVars>>

(* ---------------------------- PaymentForm ----------------------------- *)

\* what the user types or selects, per field; the optional reference is
\* left empty
AmountInputs ==
  { << >>, <<"1","0",".","0","0","5">>, <<"1","0","0","0",".","0","0">> }
CurrencyInputs == {"USD", "EUR"}
AccountInputs == { << >>, Account8 }
SwiftInputs == { << >>, SwiftLower8, SwiftShort }

ErrorFields == {"amount", "recipient_account", "swift_code"}
NoErrors == [ f \in ErrorFields |-> "" ]
NoError == ""
NoTransactionId == NoId

BlankForm ==
  [amount |-> << >>, currency |-> "USD", recipient_account |-> << >>,
   swift_code |-> << >>, reference |-> << >>]

\* a validateForm that returns at its first failing field
validateForm_FirstOnly(fd) ==
  IF IsBlank(fd.amount)
  THEN [NoErrors EXCEPT !["amount"] = "Amount is required"]
  ELSE IF ~parseFloat(fd.amount).isNum \/ parseFloat(fd.amount).v <= 0
  THEN [NoErrors EXCEPT !["amount"] = "Amount must be a positive number"]
  ELSE IF IsBlank(fd.recipient_account)
  THEN [NoErrors EXCEPT !["recipient_account"] = "Recipient account is required"]
  ELSE IF IsBlank(fd.swift_code)
  THEN [NoErrors EXCEPT !["swift_code"] = "SWIFT code is required"]
  ELSE IF ~SwiftRegexTest(fd.swift_code)
  THEN [NoErrors EXCEPT !["swift_code"] = "Invalid SWIFT code format"]
  ELSE NoErrors

\* validateForm: the message of every field that fails ("" for none)
validateForm(fd) ==
  [ f \in ErrorFields |->
      CASE f = "amount" ->
             IF IsBlank(fd.amount) THEN "Amount is required"
             ELSE IF ~parseFloat(fd.amount).isNum \/ parseFloat(fd.amount).v <= 0
                  THEN "Amount must be a positive number"
                  ELSE ""
        [] f = "recipient_account" ->
             IF IsBlank(fd.recipient_account)
             THEN "Recipient account is required" ELSE ""
        [] f = "swift_code" ->
             IF IsBlank(fd.swift_code) THEN "SWIFT code is required"
             ELSE IF ~SwiftRegexTest(fd.swift_code)
                  THEN "Invalid SWIFT code format"
                  ELSE "" ]

\* a submit button that stays enabled while the payment is being sent
submitDisabled_IgnoresLoading ==
  \/ formData.amount = << >>
  \/ parseFloat(formData.amount).isNum /\ parseFloat(formData.amount).v <= 0

\* the submit button's disabled attribute
submitDisabled ==
  \/ isLoading
  \/ formData.amount = << >>
  \/ parseFloat(formData.amount).isNum /\ parseFloat(formData.amount).v <= 0

\* <Input type="number" step="0.01" min="0.01">: the browser submits the form
\* only when the amount is empty or is min plus a whole number of steps
amountInputValid(s) ==
  \/ s = << >>
  \/ /\ parseFloat(s).isNum
     /\ parseFloat(s).v >= 10
     /\ (parseFloat(s).v - 10) % 10 = 0

\* handleInputChange(field, value); the SWIFT input upper-cases what is typed
handleInputChange(field, value) ==
  /\ value # formData[field]
  /\ formData' = [formData EXCEPT ![field] = value]
  /\ errors' = IF field \in ErrorFields /\ errors[field] # ""
               THEN [errors EXCEPT ![field] = ""] ELSE errors
  /\ error' = NoError
  /\ UNCHANGED <<serverVars, sessionCookie, listing, lastCall, isLoading,
                 showConfirmDialog, showSuccessDialog, transactionId, clicked, uiVars>>

\* handleSubmit: the form's submit event
handleSubmit ==
  /\ ~submitDisabled
  /\ amountInputValid(formData.amount)
  /\ errors' = validateForm(formData)
  /\ showConfirmDialog' =
       IF validateForm(formData) = NoErrors THEN TRUE ELSE showConfirmDialog
  /\ UNCHANGED <<serverVars, sessionCookie, listing, lastCall, formData, error, isLoading,
                 showSuccessDialog, transactionId, clicked, uiVars>>

\* the body handleConfirmPayment sends
parsedData(fd) ==
  [amount |-> parseFloat(fd.amount), currency |-> fd.currency,
   recipient_account |-> fd.recipient_account, swift_code |-> fd.swift_code,
   reference |-> fd.reference]

\* a ConfirmDialog whose Cancel button also runs onConfirm
cancelConfirm_Sends ==
  /\ showConfirmDialog
  /\ Len(requests) < MaxRequests
  /\ clicked' = "cancel"
  /\ showConfirmDialog' = FALSE
  /\ isLoading' = TRUE
  /\ requests' = Append(requests,
                        NewRequest("form", sessionCookie, NoKey, parsedData(formData)))
  /\ UNCHANGED <<now, transactions, sessionCookie, listing, lastCall, formData, errors,
                 error, showSuccessDialog, transactionId, uiVars>>

\* ConfirmDialog: the Cancel button and the backdrop call onClose only
cancelConfirm ==
  /\ showConfirmDialog
  /\ clicked' = "cancel"
  /\ showConfirmDialog' = FALSE
  /\ UNCHANGED <<serverVars, sessionCookie, listing, lastCall, formData, errors, error,
                 isLoading, showSuccessDialog, transactionId, uiVars>>

\* ConfirmDialog's confirm button: onConfirm(), which is handleConfirmPayment
\* up to its fetch, then onClose()
confirmPayment ==
  /\ showConfirmDialog
  /\ Len(requests) < MaxRequests
  /\ clicked' = "confirm"
  /\ isLoading' = TRUE
  /\ error' = NoError
  /\ requests' = Append(requests,
       NewRequest("form", sessionCookie, NoKey, parsedData(formData)))
  /\ showConfirmDialog' = FALSE
  /\ UNCHANGED <<now, transactions, sessionCookie, listing, lastCall, formData, errors,
                 showSuccessDialog, transactionId, uiVars>>

Awaited(i) ==
  /\ i \in DOMAIN requests
  /\ requests[i].origin = "form"

\* what is left of a request once the page has consumed its outcome
Consumed ==
  [NewRequest("form", FALSE, NoKey, ValidBody) EXCEPT !.stage = "consumed"]

\* handleConfirmPayment after the fetch, response.ok
paymentSucceeded(i) ==
  /\ Awaited(i)
  /\ requests[i].stage = "responded"
  /\ requests[i].status = 200
  /\ transactionId' = requests[i].transaction_id
  /\ showSuccessDialog' = TRUE
  /\ formData' = BlankForm
  /\ errors' = NoErrors
  /\ isLoading' = FALSE
  /\ requests' = [requests EXCEPT ![i] = Consumed]
  /\ UNCHANGED <<now, transactions, sessionCookie, listing, lastCall, error,
                 showConfirmDialog, clicked, uiVars>>

\* handleConfirmPayment after the fetch, !response.ok: neither the 400 nor
\* the 401 body has a message, so the error reads "Payment failed"
paymentRejected(i) ==
  /\ Awaited(i)
  /\ requests[i].stage = "responded"
  /\ requests[i].status # 200
  /\ error' = "Payment failed"
  /\ isLoading' = FALSE
  /\ requests' = [requests EXCEPT ![i] = Consumed]
  /\ UNCHANGED <<now, transactions, sessionCookie, listing, lastCall, formData, errors,
                 showConfirmDialog, showSuccessDialog, transactionId, clicked, uiVars>>

\* handleConfirmPayment's catch: the fetch rejects, the request or its
\* response being lost
paymentThrew(i) ==
  /\ Awaited(i)
  /\ requests[i].stage \in {"sent", "responded"}
  /\ error' = "Failed to fetch"
  /\ isLoading' = FALSE
  /\ requests' = [requests EXCEPT ![i] = Consumed]
  /\ UNCHANGED <<now, transactions, sessionCookie, listing, lastCall, formData, errors,
                 showConfirmDialog, showSuccessDialog, transactionId, clicked, uiVars>>

\* the success dialog's onClose
closeSuccessDialog ==
  /\ showSuccessDialog
  /\ showSuccessDialog' = FALSE
  /\ UNCHANGED <<serverVars, sessionCookie, listing, lastCall, formData, errors, error,
                 isLoading, showConfirmDialog, transactionId, clicked, uiVars>>

\* Dashboard.fetchData: GET /api/transactions, kept when the response is OK
fetchData ==
  /\ getTransactions(sessionCookie).status = 200
  /\ listing' = [ i \in DOMAIN getTransactions(sessionCookie).body |->
                    getTransactions(sessionCookie).body[i].transaction_id ]
  /\ UNCHANGED <<serverVars, sessionCookie, lastCall, formVars, uiVars>>

(* ------------- the PaymentForm page of src/unnamed/part_007 ------------ *)

\* This page keeps formData, errors, isLoading, the two dialog flags and
\* transactionId; it has no error state, so error stays as it is.

\* { ...formData, amount: parseFloat(formData.amount) || 0 }
parsedData7(fd) ==
  [amount |-> IF parseFloat(fd.amount).isNum THEN parseFloat(fd.amount) ELSE Num(0),
   currency |-> fd.currency, recipient_account |-> fd.recipient_account,
   swift_code |-> fd.swift_code, reference |-> fd.reference]

\* error.errors.forEach(err => newErrors[err.path[0]] = err.message): the
\* message of the last issue on field f, "" when there is none
MessageFor(issues, f) ==
  IF Issue(f, MsgDecimals) \in issues THEN MsgDecimals
  ELSE IF \E e \in issues : e.path = f
       THEN (CHOOSE e \in issues : e.path = f).message
       ELSE ""

\* validateForm: PaymentSchema.parse(parsedData)
validateForm7(fd) ==
  [ f \in ErrorFields |-> MessageFor(PaymentSchema(parsedData7(fd)), f) ]

\* <Input type="number" step="0.01" min="0">
amountInputValid7(s) ==
  \/ s = << >>
  \/ /\ parseFloat(s).isNum
     /\ parseFloat(s).v >= 0
     /\ parseFloat(s).v % 10 = 0

handleInputChange7(field, value) ==
  /\ value # formData[field]
  /\ formData' = [formData EXCEPT ![field] = value]
  /\ errors' = IF field \in ErrorFields /\ errors[field] # ""
               THEN [errors EXCEPT ![field] = ""] ELSE errors
  /\ UNCHANGED <<serverVars, sessionCookie, listing, lastCall, error, isLoading,
                 showConfirmDialog, showSuccessDialog, transactionId, clicked, uiVars>>

\* the submit button is disabled={isLoading}
handleSubmit7 ==
  /\ ~isLoading
  /\ amountInputValid7(formData.amount)
  /\ errors' = validateForm7(formData)
  /\ showConfirmDialog' =
       IF validateForm7(formData) = NoErrors THEN TRUE ELSE showConfirmDialog
  /\ UNCHANGED <<serverVars, sessionCookie, listing, lastCall, formData, error, isLoading,
                 showSuccessDialog, transactionId, clicked, uiVars>>

\* ConfirmDialog's confirm button: handleConfirmPayment up to its fetch
confirmPayment7 ==
  /\ showConfirmDialog
  /\ Len(requests) < MaxRequests
  /\ clicked' = "confirm"
  /\ isLoading' = TRUE
  /\ requests' = Append(requests,
       NewRequest("form", sessionCookie, NoKey, parsedData(formData)))
  /\ showConfirmDialog' = FALSE
  /\ UNCHANGED <<now, transactions, sessionCookie, listing, lastCall, formData, errors,
                 error, showSuccessDialog, transactionId, uiVars>>

\* handleConfirmPayment after the fetch, response.ok
paymentSucceeded7(i) ==
  /\ Awaited(i)
  /\ requests[i].stage = "responded"
  /\ requests[i].status = 200
  /\ transactionId' = requests[i].transaction_id
  /\ showSuccessDialog' = TRUE
  /\ formData' = BlankForm
  /\ isLoading' = FALSE
  /\ requests' = [requests EXCEPT ![i] = Consumed]
  /\ UNCHANGED <<now, transactions, sessionCookie, listing, lastCall, errors, error,
                 showConfirmDialog, clicked, uiVars>>

\* handleConfirmPayment after the fetch, !response.ok, and its catch:
\* console.error alone, then finally
paymentFailed7(i) ==
  /\ Awaited(i)
  /\ \/ requests[i].stage = "responded" /\ requests[i].status # 200
     \/ requests[i].stage = "sent"
  /\ isLoading' = FALSE
  /\ requests' = [requests EXCEPT ![i] = Consumed]
  /\ UNCHANGED <<now, transactions, sessionCookie, listing, lastCall, formData, errors,
                 error, showConfirmDialog, showSuccessDialog, transactionId,
                 clicked, uiVars>>

(* --------------------------- payment summary -------------------------- *)

\* A natural number as limbs of 15 bits, least significant first: the
\* payment summary multiplies IEEE 754 doubles, whose 53-bit significands
\* and 106-bit products are held this way.
LimbBits == 15
Base == 2 ^ LimbBits

RECURSIVE Limbs(_)
Limbs(n) == IF n = 0 THEN << >> ELSE << n % Base >> \o Limbs(n \div Base)

RECURSIVE LimbsToInt(_)
LimbsToInt(a) == IF a = << >> THEN 0 ELSE a[1] + Base * LimbsToInt(Tail(a))

\* without the zero limbs at the most significant end
RECURSIVE Trim(_)
Trim(a) ==
  IF a = << >> \/ a[Len(a)] # 0 THEN a ELSE Trim(SubSeq(a, 1, Len(a) - 1))

LimbAt(a, i) == IF i \in DOMAIN a THEN a[i] ELSE 0

RECURSIVE AddFrom(_, _, _, _)
AddFrom(a, b, i, c) ==
  IF i > Len(a) /\ i > Len(b) THEN (IF c = 0 THEN << >> ELSE << c >>)
  ELSE << (LimbAt(a, i) + LimbAt(b, i) + c) % Base >>
       \o AddFrom(a, b, i + 1, (LimbAt(a, i) + LimbAt(b, i) + c) \div Base)

LAdd(a, b) == AddFrom(a, b, 1, 0)

\* a times a number s below Base
RECURSIVE MulSmallFrom(_, _, _, _)
MulSmallFrom(a, s, i, c) ==
  IF i > Len(a) THEN (IF c = 0 THEN << >> ELSE << c >>)
  ELSE << (a[i] * s + c) % Base >>
       \o MulSmallFrom(a, s, i + 1, (a[i] * s + c) \div Base)

LMulSmall(a, s) == Trim(MulSmallFrom(a, s, 1, 0))

RECURSIVE LMul(_, _)
LMul(a, b) ==
  IF b = << >> \/ a = << >> THEN << >>
  ELSE LAdd(LMulSmall(a, b[1]), << 0 >> \o LMul(a, Tail(b)))

\* long division by a divisor d below Base: the remainder left of limbs
\* i..Len(a), and the quotient
RECURSIVE RemFrom(_, _, _)
RemFrom(a, d, i) ==
  IF i > Len(a) THEN 0 ELSE (Base * RemFrom(a, d, i + 1) + a[i]) % d

LDiv(a, d) ==
  Trim([ i \in 1..Len(a) |-> (Base * RemFrom(a, d, i + 1) + a[i]) \div d ])

\* bit j of a, bit 0 being the least significant
BitAt(a, j) ==
  (LimbAt(a, (j \div LimbBits) + 1) \div (2 ^ (j % LimbBits))) % 2

\* the bits of a below bit j are all zero
LowBitsZero(a, j) ==
  /\ \A i \in 1..(j \div LimbBits) : LimbAt(a, i) = 0
  /\ LimbAt(a, (j \div LimbBits) + 1) % (2 ^ (j % LimbBits)) = 0

BitLen(a) ==
  IF a = << >> THEN 0
  ELSE LimbBits * (Len(a) - 1)
       + (CHOOSE n \in 1..LimbBits :
            (2 ^ (n - 1)) <= a[Len(a)] /\ a[Len(a)] < (2 ^ n))

\* a with its k lowest bits dropped
ShiftRight(a, k) ==
  Trim([ i \in 1..Len(a) |->
           (LimbAt(a, (k \div LimbBits) + i) \div (2 ^ (k % LimbBits)))
           + (LimbAt(a, (k \div LimbBits) + i + 1) % (2 ^ (k % LimbBits)))
             * (2 ^ (LimbBits - (k % LimbBits))) ])

\* significand bits of a double
Precision == 53

\* the double nearest to P * 2^(-e), ties to even, for P of more than 53
\* bits; inexact tells that P was itself cut off.  A double is [m, e]: a
\* significand m of 53 bits, standing for m * 2^(-e).
RoundToDouble(P, e, inexact) ==
  LET k    == BitLen(P) - Precision
      m    == ShiftRight(P, k)
      half == BitAt(P, k - 1) = 1
      low  == inexact \/ ~LowBitsZero(P, k - 1)
      up   == half /\ (low \/ BitAt(m, 0) = 1)
      r    == IF up THEN LAdd(m, << 1 >>) ELSE m
  IN IF BitLen(r) > Precision
     THEN [m |-> ShiftRight(r, 1), e |-> e - k - 1]
     ELSE [m |-> r, e |-> e - k]

\* limbs of binary digits kept of a quotient before it is rounded
GuardLimbs == 6

\* the double nearest to the fraction n / d (n >= 1, 1 <= d <= 1000)
Double(n, d) ==
  LET num == [ i \in 1..GuardLimbs |-> 0 ] \o Limbs(n)
  IN RoundToDouble(LDiv(num, d), GuardLimbs * LimbBits, RemFrom(num, d, 1) # 0)

\* x * y in double arithmetic
Times(x, y) == RoundToDouble(LMul(x.m, y.m), x.e + y.e, FALSE)

\* How Intl.NumberFormat rounds a double to 2 fraction digits, half away
\* from zero: ECMA-402 rounds the exact binary value; ICU, which browsers
\* ship, rounds the shortest decimal that reads back as the double.
Engines == {"ecma402", "icu"}

\* Intl.NumberFormat(.., {style: 'currency'}).format(x), in cents
formatCents(x, engine) ==
  LET Z    == LMulSmall(x.m, 100)
      q    == LimbsToInt(ShiftRight(Z, x.e))
      half == BitAt(Z, x.e - 1) = 1
      tie  == Double(2 * q + 1, 200) = x
  IN IF half \/ (engine = "icu" /\ tie) THEN q + 1 ELSE q

\* the three lines of the Payment Summary, in cents: the amount,
\* parseFloat(amount) * 0.02 and parseFloat(amount) * 1.02
PaymentSummary(fd, engine) ==
  LET amount == Double(parseFloat(fd.amount).v, 1000)
  IN [amount |-> formatCents(amount, engine),
      fee    |-> formatCents(Times(amount, Double(2, 100)), engine),
      total  |-> formatCents(Times(amount, Double(102, 100)), engine)]

\* the summary is rendered: formData.amount && parseFloat(..) > 0
summaryShown(fd) ==
  /\ fd.amount # << >>
  /\ parseFloat(fd.amount).isNum
  /\ parseFloat(fd.amount).v > 0

\* the amounts typed to look at the summary: every quarter up to 15.00,
\* and 1000.00, written with two decimals
SummaryCents == { 25 * k : k \in 1..60 } \cup { 100000 }

RECURSIVE IntDigits(_)
IntDigits(n) ==
  IF n < 10 THEN << DigitSeq[n + 1] >>
  ELSE IntDigits(n \div 10) \o << DigitSeq[(n % 10) + 1] >>

AmountString(cents) ==
  IntDigits(cents \div 100)
  \o << ".", DigitSeq[((cents \div 10) % 10) + 1], DigitSeq[(cents % 10) + 1] >>

(* ----------------------------- ThemeProvider --------------------------- *)

Themes == <<"light", "dark", "auto">>

NoTheme == "null"

\* useState's initialiser: localStorage's theme, or 'light'
InitialTheme(saved) == IF saved = NoTheme THEN "light" ELSE saved

\* ThemeProvider mounts: theme from localStorage, isDark false, and the
\* effect still to run; the new document has no listener and no dark class
ThemeProviderMounts ==
  /\ theme' = InitialTheme(savedTheme)
  /\ isDark' = FALSE
  /\ themeEffectDue' = TRUE
  /\ themeListener' = FALSE
  /\ rootDark' = FALSE
  /\ UNCHANGED <<savedTheme, systemDark>>

\* setTheme(newTheme): setThemeState; the effect depends on [theme]
setTheme(newTheme) ==
  /\ newTheme # theme
  /\ theme' = newTheme
  /\ themeEffectDue' = TRUE
  /\ UNCHANGED <<nonThemeVars, isDark, systemDark, themeListener, savedTheme,
                 rootDark>>

\* Layout.toggleTheme: the theme after the current one, in a cycle
toggleTheme ==
  setTheme(Themes[((CHOOSE i \in DOMAIN Themes : Themes[i] = theme) % Len(Themes)) + 1])

\* an effect whose clean-up leaves the listener of the run before in place
themeEffect_KeepsListener ==
  /\ themeEffectDue
  /\ themeEffectDue' = FALSE
  /\ savedTheme' = theme
  /\ isDark' = IF theme = "auto" THEN systemDark ELSE theme = "dark"
  /\ rootDark' = IF theme = "auto" THEN systemDark ELSE theme = "dark"
  /\ themeListener' = (themeListener \/ theme = "auto")
  /\ UNCHANGED <<nonThemeVars, theme, systemDark>>

\* the effect on [theme]: the clean-up of its run before removes the
\* listener; then the theme is saved, isDark and the root's dark class set,
\* and under 'auto' a listener for system changes added
themeEffect ==
  /\ themeEffectDue
  /\ themeEffectDue' = FALSE
  /\ savedTheme' = theme
  /\ isDark' = IF theme = "auto" THEN systemDark ELSE theme = "dark"
  /\ rootDark' = IF theme = "auto" THEN systemDark ELSE theme = "dark"
  /\ themeListener' = (theme = "auto")
  /\ UNCHANGED <<nonThemeVars, theme, systemDark>>

\* the system's colour scheme changes; handleChange runs if it is listening
systemThemeChange ==
  /\ systemDark' = ~systemDark
  /\ isDark' = IF themeListener THEN ~systemDark ELSE isDark
  /\ rootDark' = IF themeListener THEN ~systemDark ELSE rootDark
  /\ UNCHANGED <<nonThemeVars, theme, themeEffectDue, themeListener, savedTheme>>

(* ----------------- AuthProvider and the protected pages ---------------- *)

\* useState<User | null>(null): the value that is no user
null == [id |-> "null", email |-> "null"]

\* the async functions of the client that await a fetch
Fns == {"checkAuth", "login", "logout", "handleAccountDeletion", "fetchPage"}

\* a function not running; one running awaits the route in pc, which was
\* sent with or without the cookie
Idle == [pc |-> "idle", cookie |-> FALSE]

\* the functions in flight after a page load: none
Mounted == [fn \in Fns |-> Idle]

Awaiting(fn, route) == calls[fn].pc = route

Paths == {"/", "/login", "/dashboard", "/payment", "/profile", "/logout"}

ProtectedPaths == {"/dashboard", "/payment", "/profile"}

\* the routes App declares; any other path renders nothing
AppRoutes == {"/", "/login", "/dashboard", "/payment", "/profile"}

\* the pages whose effect loads data once there is a user, and what it gets
PageData ==
  [p \in {"/dashboard", "/profile"} |->
     IF p = "/dashboard" THEN "GET /api/transactions" ELSE "GET /api/profile"]

\* the browser loads or reloads the application. AuthProvider mounts with
\* user null and isPending true and its effect starts checkAuth; functions
\* of the page before are gone. ThemeProvider mounts above it.
loadApp ==
  /\ ThemeProviderMounts
  /\ user' = null
  /\ isPending' = TRUE
  /\ calls' = [Mounted EXCEPT !["checkAuth"] =
                 [pc |-> "GET /api/users/me", cookie |-> sessionCookie]]
  /\ sinceLogout' = IF sinceLogout = "no" THEN "no" ELSE "before"
  /\ redirected' = FALSE
  /\ pageIsLoading' = TRUE
  /\ pageError' = FALSE
  /\ UNCHANGED <<nonProviderVars, sessionCookie, location>>

\* checkAuth after its fetch: setUser when response.ok, then finally
checkAuthAnswered ==
  /\ Awaiting("checkAuth", "GET /api/users/me")
  /\ user' = IF respond("GET /api/users/me", calls["checkAuth"].cookie).status = 200
             THEN mockUser ELSE user
  /\ isPending' = FALSE
  /\ calls' = [calls EXCEPT !["checkAuth"] = Idle]
  /\ UNCHANGED <<nonAuthVars, sessionCookie, sinceLogout, location, redirected,
                 pageIsLoading, pageError>>

\* a checkAuth that has no finally: a rejected fetch leaves isPending set
checkAuthThrew_NoFinally ==
  /\ Awaiting("checkAuth", "GET /api/users/me")
  /\ calls' = [calls EXCEPT !["checkAuth"] = Idle]
  /\ UNCHANGED <<nonAuthVars, sessionCookie, user, isPending, sinceLogout,
                 location, redirected, pageIsLoading, pageError>>

\* checkAuth's catch: the fetch rejects, then finally
checkAuthThrew ==
  /\ Awaiting("checkAuth", "GET /api/users/me")
  /\ isPending' = FALSE
  /\ calls' = [calls EXCEPT !["checkAuth"] = Idle]
  /\ UNCHANGED <<nonAuthVars, sessionCookie, user, sinceLogout, location,
                 redirected, pageIsLoading, pageError>>

\* login() up to its first fetch
login ==
  /\ calls["login"] = Idle
  /\ calls' = [calls EXCEPT !["login"] =
                 [pc |-> "POST /api/login", cookie |-> sessionCookie]]
  /\ sinceLogout' = "no"
  /\ UNCHANGED <<nonAuthVars, sessionCookie, user, isPending, location,
                 redirected, pageIsLoading, pageError>>

\* POST /api/login answers, always OK, with Set-Cookie; login() goes on to
\* fetch /api/users/me
loginAnswered ==
  /\ Awaiting("login", "POST /api/login")
  /\ sessionCookie' = TRUE
  /\ calls' = [calls EXCEPT !["login"] =
                 [pc |-> "GET /api/users/me", cookie |-> TRUE]]
  /\ UNCHANGED <<nonAuthVars, user, isPending, sinceLogout, location,
                 redirected, pageIsLoading, pageError>>

\* login() after its second fetch: setUser when userResponse.ok
loginUserAnswered ==
  /\ Awaiting("login", "GET /api/users/me")
  /\ user' = IF respond("GET /api/users/me", calls["login"].cookie).status = 200
             THEN mockUser ELSE user
  /\ calls' = [calls EXCEPT !["login"] = Idle]
  /\ registerSigningUp' = FALSE
  /\ UNCHANGED <<nonLoginVars, registerVars, registerIsLoading, sessionCookie,
                 isPending, sinceLogout, location, redirected, pageIsLoading,
                 pageError>>

\* login()'s catch: either fetch rejects and the error is thrown on, to
\* the catch of Register.handleGoogleSignUp if that is the caller
loginThrew ==
  /\ calls["login"] # Idle
  /\ calls' = [calls EXCEPT !["login"] = Idle]
  /\ registerSigningUp' = FALSE
  /\ registerIsLoading' = IF registerSigningUp THEN FALSE ELSE registerIsLoading
  /\ UNCHANGED <<nonLoginVars, registerVars, sessionCookie, user, isPending,
                 sinceLogout, location, redirected, pageIsLoading, pageError>>

\* Layout.handleLogout: logout() up to its fetch
logout ==
  /\ calls["logout"] = Idle
  /\ calls' = [calls EXCEPT !["logout"] =
                 [pc |-> "GET /api/logout", cookie |-> sessionCookie]]
  /\ UNCHANGED <<nonAuthVars, sessionCookie, user, isPending, sinceLogout,
                 location, redirected, pageIsLoading, pageError>>

\* GET /api/logout answers and clears the cookie; logout() sets user null
logoutAnswered ==
  /\ Awaiting("logout", "GET /api/logout")
  /\ sessionCookie' = FALSE
  /\ user' = null
  /\ sinceLogout' = "done"
  /\ calls' = [calls EXCEPT !["logout"] = Idle]
  /\ UNCHANGED <<nonAuthVars, isPending, location, redirected, pageIsLoading,
                 pageError>>

\* logout()'s catch: the fetch rejects, the error is logged, user is set null
logoutThrew ==
  /\ Awaiting("logout", "GET /api/logout")
  /\ user' = null
  /\ sinceLogout' = "done"
  /\ calls' = [calls EXCEPT !["logout"] = Idle]
  /\ UNCHANGED <<nonAuthVars, sessionCookie, isPending, location, redirected,
                 pageIsLoading, pageError>>

\* what the page at a path renders
View(path) ==
  CASE path = "/dashboard" ->
         IF isPending \/ pageIsLoading THEN "spinner"
         ELSE IF pageError THEN "error"
         ELSE IF user = null THEN "nothing"
         ELSE "content"
    [] path = "/payment" ->
         IF isPending THEN "spinner"
         ELSE IF user = null THEN "nothing"
         ELSE "content"
    [] path = "/profile" ->
         IF isPending \/ pageIsLoading THEN "spinner"
         ELSE IF pageError /\ ~pageIsLoading THEN "error"
         ELSE IF user = null THEN "nothing"
         ELSE "content"
    [] path \in AppRoutes \ ProtectedPaths -> "public"
    [] OTHER -> "nothing"

\* the user follows a link or types a path; the page there mounts anew
navigate(path) ==
  /\ path # location
  /\ location' = path
  /\ redirected' = FALSE
  /\ pageIsLoading' = TRUE
  /\ pageError' = FALSE
  /\ calls' = [calls EXCEPT !["fetchPage"] = Idle,
                            !["handleAccountDeletion"] = Idle]
  /\ UNCHANGED <<nonAuthVars, sessionCookie, user, isPending, sinceLogout>>

\* an effect that does not wait for the auth check
redirectToLoginEffect_WhilePending ==
  /\ location \in ProtectedPaths
  /\ user = null
  /\ location' = "/login"
  /\ redirected' = TRUE
  /\ pageIsLoading' = TRUE
  /\ pageError' = FALSE
  /\ calls' = [calls EXCEPT !["fetchPage"] = Idle,
                            !["handleAccountDeletion"] = Idle]
  /\ UNCHANGED <<nonAuthVars, sessionCookie, user, isPending, sinceLogout>>

\* the first useEffect of Dashboard, PaymentForm and Profile
redirectToLoginEffect ==
  /\ location \in ProtectedPaths
  /\ ~isPending /\ user = null
  /\ location' = "/login"
  /\ redirected' = TRUE
  /\ pageIsLoading' = TRUE
  /\ pageError' = FALSE
  /\ calls' = [calls EXCEPT !["fetchPage"] = Idle,
                            !["handleAccountDeletion"] = Idle]
  /\ UNCHANGED <<nonAuthVars, sessionCookie, user, isPending, sinceLogout>>

\* the same useEffect, if (user): fetchData() or fetchProfile() up to the fetch
fetchPage ==
  /\ location \in DOMAIN PageData
  /\ user # null
  /\ calls["fetchPage"] = Idle
  /\ pageIsLoading
  /\ calls' = [calls EXCEPT !["fetchPage"] =
                 [pc |-> PageData[location], cookie |-> sessionCookie]]
  /\ UNCHANGED <<nonAuthVars, sessionCookie, user, isPending, sinceLogout,
                 location, redirected, pageIsLoading, pageError>>

\* fetchData / fetchProfile after the fetch: Dashboard skips what is not OK,
\* Profile throws and sets its error; both end loading
fetchPageAnswered ==
  /\ calls["fetchPage"] # Idle
  /\ pageIsLoading' = FALSE
  /\ pageError' =
       (/\ location = "/profile"
        /\ respond(calls["fetchPage"].pc, calls["fetchPage"].cookie).status # 200)
  /\ calls' = [calls EXCEPT !["fetchPage"] = Idle]
  /\ UNCHANGED <<nonAuthVars, sessionCookie, user, isPending, sinceLogout,
                 location, redirected>>

\* their catch: the fetch rejects
fetchPageThrew ==
  /\ calls["fetchPage"] # Idle
  /\ pageIsLoading' = FALSE
  /\ pageError' = TRUE
  /\ calls' = [calls EXCEPT !["fetchPage"] = Idle]
  /\ UNCHANGED <<nonAuthVars, sessionCookie, user, isPending, sinceLogout,
                 location, redirected>>

\* Profile.handleAccountDeletion up to its fetch
handleAccountDeletion ==
  /\ location = "/profile"
  /\ View("/profile") = "content"
  /\ calls["handleAccountDeletion"] = Idle
  /\ pageError' = FALSE
  /\ calls' = [calls EXCEPT !["handleAccountDeletion"] =
                 [pc |-> "POST /api/profile/delete", cookie |-> sessionCookie]]
  /\ UNCHANGED <<nonAuthVars, sessionCookie, user, isPending, sinceLogout,
                 location, redirected, pageIsLoading>>

\* handleAccountDeletion after the fetch, response.ok: navigate("/logout"),
\* a path App has no route for
accountDeleted ==
  /\ Awaiting("handleAccountDeletion", "POST /api/profile/delete")
  /\ respond("POST /api/profile/delete",
             calls["handleAccountDeletion"].cookie).status = 200
  /\ location' = "/logout"
  /\ redirected' = FALSE
  /\ calls' = [calls EXCEPT !["handleAccountDeletion"] = Idle,
                            !["fetchPage"] = Idle]
  /\ UNCHANGED <<nonAuthVars, sessionCookie, user, isPending, sinceLogout,
                 pageIsLoading, pageError>>

\* handleAccountDeletion when the response is not OK or the fetch rejects
accountDeletionFailed ==
  /\ Awaiting("handleAccountDeletion", "POST /api/profile/delete")
  /\ pageError' = TRUE
  /\ calls' = [calls EXCEPT !["handleAccountDeletion"] = Idle]
  /\ UNCHANGED <<nonAuthVars, sessionCookie, user, isPending, sinceLogout,
                 location, redirected, pageIsLoading>>

(* -------------------------- NotificationCenter ------------------------- *)

\* GET /api/notifications: the ids of the mock notifications and their status
mockNotifications == [id \in {"1", "2", "3"} |-> IF id = "3" THEN "read" ELSE "unread"]

NoNotifications == [id \in {} |-> "unread"]

Tabs == {"all", "unread", "archived"}

\* filteredNotifications: the notifications the active tab lists
filteredNotifications ==
  { id \in DOMAIN notifications :
      CASE activeTab = "unread" -> notifications[id] = "unread"
        [] activeTab = "archived" -> notifications[id] = "archived"
        [] OTHER -> notifications[id] # "archived" }

\* Layout opens the center; the effect starts fetchNotifications
openNotifications ==
  /\ ~notificationsOpen
  /\ notificationsOpen' = TRUE
  /\ notificationsLoading' = TRUE
  /\ UNCHANGED <<nonNotificationVars, notifications, activeTab, notificationCalls>>

closeNotifications ==
  /\ notificationsOpen
  /\ notificationsOpen' = FALSE
  /\ UNCHANGED <<nonNotificationVars, notifications, activeTab,
                 notificationsLoading, notificationCalls>>

\* fetchNotifications after its fetch: setNotifications(data) when
\* response.ok, nothing when not or when the fetch rejects; then finally
fetchNotificationsDone(ok) ==
  /\ notificationsLoading
  /\ notifications' =
       IF ok /\ respond("GET /api/notifications", sessionCookie).status = 200
       THEN mockNotifications ELSE notifications
  /\ notificationsLoading' = FALSE
  /\ UNCHANGED <<nonNotificationVars, activeTab, notificationsOpen,
                 notificationCalls>>

setActiveTab(tab) ==
  /\ notificationsOpen
  /\ tab # activeTab
  /\ activeTab' = tab
  /\ UNCHANGED <<nonNotificationVars, notifications, notificationsOpen,
                 notificationsLoading, notificationCalls>>

\* the list is rendered once loading has ended
Listed(id) ==
  /\ notificationsOpen
  /\ ~notificationsLoading
  /\ id \in filteredNotifications

\* markAsRead(id) up to its fetch; the button shows on unread notifications
markAsRead(id) ==
  /\ Listed(id)
  /\ notifications[id] = "unread"
  /\ notificationCalls' = notificationCalls \cup
       {[fn |-> "markAsRead", id |-> id, cookie |-> sessionCookie]}
  /\ UNCHANGED <<nonNotificationVars, notifications, activeTab,
                 notificationsOpen, notificationsLoading>>

\* archiveNotification(id) up to its fetch; the button shows on every
\* listed notification
archiveNotification(id) ==
  /\ Listed(id)
  /\ notificationCalls' = notificationCalls \cup
       {[fn |-> "archiveNotification", id |-> id, cookie |-> sessionCookie]}
  /\ UNCHANGED <<nonNotificationVars, notifications, activeTab,
                 notificationsOpen, notificationsLoading>>

NotificationRoute(call) ==
  IF call.fn = "markAsRead" THEN "POST /api/notifications/:id/read"
  ELSE "POST /api/notifications/:id/archive"

\* either function after its fetch: when response.ok, prev.map(..) sets the
\* status of the notification with that id in the list as it is now
notificationAnswered(call) ==
  /\ call \in notificationCalls
  /\ notificationCalls' = notificationCalls \ {call}
  /\ notifications' =
       IF respond(NotificationRoute(call), call.cookie).status = 200
       THEN [id \in DOMAIN notifications |->
               IF id = call.id
               THEN (IF call.fn = "markAsRead" THEN "read" ELSE "archived")
               ELSE notifications[id]]
       ELSE notifications
  /\ UNCHANGED <<nonNotificationVars, activeTab, notificationsOpen,
                 notificationsLoading>>

\* either function's catch: the fetch rejects
notificationThrew(call) ==
  /\ call \in notificationCalls
  /\ notificationCalls' = notificationCalls \ {call}
  /\ UNCHANGED <<nonNotificationVars, notifications, activeTab,
                 notificationsOpen, notificationsLoading>>

(* ------------------------------- LiveChat ------------------------------ *)

\* what the user may have typed into the message box
ChatInputs == { << >>, <<" ">>, <<"h", "i">>, <<" ", "h", "i">> }

\* String.prototype.trim
RECURSIVE trimStart(_)
trimStart(s) ==
  IF s # << >> /\ Head(s) = " " THEN trimStart(Tail(s)) ELSE s

RECURSIVE trimEnd(_)
trimEnd(s) ==
  IF s # << >> /\ s[Len(s)] = " " THEN trimEnd(SubSeq(s, 1, Len(s) - 1)) ELSE s

trim(s) == trimEnd(trimStart(s))

\* a message not saved yet has no id
NoMessageId == "undefined"

\* GET /api/chat/history: two messages of an hour ago
mockChatHistory ==
  << [id |-> "1", created_at |-> -2, is_from_user |-> TRUE],
     [id |-> "2", created_at |-> -1, is_from_user |-> FALSE] >>

NoSend == [n |-> 0, created_at |-> 0, outcome |-> "none"]

\* the clock of the browser and the worker moves on
chatTick ==
  /\ chatNow < MaxChatClock
  /\ chatNow' = chatNow + 1
  /\ UNCHANGED <<nonChatVars, messages, newMessage, chatOpen, chatIsLoading,
                 isTyping, chatCalls, chatTimers, chatDone>>

\* Layout opens the chat; the effect starts fetchChatHistory
openLiveChat ==
  /\ ~chatOpen
  /\ chatOpen' = TRUE
  /\ chatIsLoading' = TRUE
  /\ UNCHANGED <<nonChatVars, messages, newMessage, isTyping, chatCalls,
                 chatTimers, chatDone, chatNow>>

closeLiveChat ==
  /\ chatOpen
  /\ chatOpen' = FALSE
  /\ UNCHANGED <<nonChatVars, messages, newMessage, chatIsLoading, isTyping,
                 chatCalls, chatTimers, chatDone, chatNow>>

\* fetchChatHistory after its fetch: setMessages(data) when response.ok
fetchChatHistoryDone(ok) ==
  /\ chatIsLoading
  /\ messages' =
       IF ok /\ respond("GET /api/chat/history", sessionCookie).status = 200
       THEN mockChatHistory ELSE messages
  /\ chatIsLoading' = FALSE
  /\ UNCHANGED <<nonChatVars, newMessage, chatOpen, isTyping, chatCalls,
                 chatTimers, chatDone, chatNow>>

\* the message box's onChange
setNewMessage(text) ==
  /\ chatOpen
  /\ text # newMessage
  /\ newMessage' = text
  /\ UNCHANGED <<nonChatVars, messages, chatOpen, chatIsLoading, isTyping,
                 chatCalls, chatTimers, chatDone, chatNow>>

\* sendMessage(content, .., fileUrl) up to its fetch: nothing for blank
\* content without a file, else the message is added and the box cleared
sendMessage(content, hasFile) ==
  /\ chatOpen
  /\ trim(content) # << >> \/ hasFile
  /\ Cardinality(chatCalls) + chatDone.n < MaxSends
  /\ messages' = Append(messages,
       [id |-> NoMessageId, created_at |-> chatNow, is_from_user |-> TRUE])
  /\ newMessage' = << >>
  /\ chatCalls' = chatCalls \cup
       {[n |-> Cardinality(chatCalls) + chatDone.n + 1,
         created_at |-> chatNow, cookie |-> sessionCookie]}
  /\ UNCHANGED <<nonChatVars, chatOpen, chatIsLoading, isTyping, chatTimers,
                 chatDone, chatNow>>

\* the form's handleSubmit: sendMessage(newMessage)
sendNewMessage == sendMessage(newMessage, FALSE)

\* handleFileUpload: sendMessage('[Image]', 'file', fileUrl, file.name)
handleFileUpload == sendMessage(<<"[", "]">>, TRUE)

\* prev.map(m => m.created_at === message.created_at ? savedMessage : m);
\* the worker's answer carries an id and its own created_at
Saved(call, msgs) ==
  [i \in DOMAIN msgs |->
     IF msgs[i].created_at = call.created_at
     THEN [id |-> "msg", created_at |-> chatNow, is_from_user |-> TRUE]
     ELSE msgs[i]]

\* prev.filter(m => m.created_at !== message.created_at)
Removed(call, msgs) ==
  SelectSeq(msgs, LAMBDA m : m.created_at # call.created_at)

\* sendMessage after its fetch: on response.ok the message is replaced and
\* the agent's answer scheduled; a response that is not OK changes nothing
sendAnswered(call) ==
  /\ call \in chatCalls
  /\ chatCalls' = chatCalls \ {call}
  /\ IF respond("POST /api/chat/send", call.cookie).status = 200
     THEN /\ messages' = Saved(call, messages)
          /\ chatTimers' = [chatTimers EXCEPT !.typing = @ + 1]
          /\ chatDone' = [n |-> chatDone.n + 1, created_at |-> call.created_at,
                          outcome |-> "ok"]
     ELSE /\ UNCHANGED <<messages, chatTimers>>
          /\ chatDone' = [n |-> chatDone.n + 1, created_at |-> call.created_at,
                          outcome |-> "not ok"]
  /\ UNCHANGED <<nonChatVars, newMessage, chatOpen, chatIsLoading, isTyping,
                 chatNow>>

\* sendMessage's catch: the fetch rejects and the message is filtered out
sendThrew(call) ==
  /\ call \in chatCalls
  /\ chatCalls' = chatCalls \ {call}
  /\ messages' = Removed(call, messages)
  /\ chatDone' = [n |-> chatDone.n + 1, created_at |-> call.created_at,
                  outcome |-> "threw"]
  /\ UNCHANGED <<nonChatVars, newMessage, chatOpen, chatIsLoading, isTyping,
                 chatTimers, chatNow>>

\* the outer setTimeout: setIsTyping(true), and the inner one is set
agentTyping ==
  /\ chatTimers.typing > 0
  /\ isTyping' = TRUE
  /\ chatTimers' = [typing |-> chatTimers.typing - 1,
                    response |-> chatTimers.response + 1]
  /\ UNCHANGED <<nonChatVars, messages, newMessage, chatOpen, chatIsLoading,
                 chatCalls, chatDone, chatNow>>

\* the inner setTimeout: the agent's message is added
agentResponse ==
  /\ chatTimers.response > 0
  /\ messages' = Append(messages,
       [id |-> "agent", created_at |-> chatNow, is_from_user |-> FALSE])
  /\ isTyping' = FALSE
  /\ chatTimers' = [chatTimers EXCEPT !.response = @ - 1]
  /\ UNCHANGED <<nonChatVars, newMessage, chatOpen, chatIsLoading, chatCalls,
                 chatDone, chatNow>>

(* ------------------------------- Register ------------------------------ *)

\* The Register page while it is mounted.

\* a render that shows the profile form whenever there is a user
RegisterRender_Unguarded(u, success, profileForm) ==
  IF u # null
  THEN [again |-> TRUE, showProfileForm |-> TRUE]
  ELSE [again |-> FALSE, showProfileForm |-> profileForm]

\* one pass of Register's body: its render-time setShowProfileForm(true),
\* after which React discards the pass and renders again
RegisterRender(u, success, profileForm) ==
  IF u # null /\ ~success /\ ~profileForm
  THEN [again |-> TRUE, showProfileForm |-> TRUE]
  ELSE [again |-> FALSE, showProfileForm |-> profileForm]

\* the state Register's output depends on
RegisterState == <<user, isPending, registerShowSuccessDialog, showProfileForm,
                   registerIsLoading>>

NotRendered == << >>

\* state has changed since the last pass that was committed
RenderDue == registerRendered # RegisterState

\* React renders Register: a pass that updates state is done again
renderRegister ==
  /\ RenderDue
  /\ registerRenders < MaxRenders
  /\ LET pass == RegisterRender(user, registerShowSuccessDialog, showProfileForm)
     IN  /\ showProfileForm' = pass.showProfileForm
         /\ registerRenders' = IF pass.again THEN registerRenders + 1 ELSE 0
         /\ registerRendered' =
              IF pass.again THEN registerRendered ELSE RegisterState
  /\ UNCHANGED <<nonRegisterVars, registerShowSuccessDialog, registerIsLoading,
                 registerSigningUp, registerCall>>

\* handleGoogleSignUp up to login()'s first fetch; the button shows without
\* the profile form and is disabled while isLoading or isPending
handleGoogleSignUp ==
  /\ ~RenderDue
  /\ ~showProfileForm
  /\ ~registerIsLoading /\ ~isPending
  /\ calls["login"] = Idle
  /\ registerIsLoading' = TRUE
  /\ registerSigningUp' = TRUE
  /\ calls' = [calls EXCEPT !["login"] =
                 [pc |-> "POST /api/login", cookie |-> sessionCookie]]
  /\ sinceLogout' = "no"
  /\ UNCHANGED <<nonLoginVars, sessionCookie, user, isPending, location,
                 redirected, pageIsLoading, pageError, showProfileForm,
                 registerShowSuccessDialog, registerRendered, registerRenders,
                 registerCall>>

\* handleSubmitProfile up to its fetch; it returns at once for a form that
\* validateForm rejects; the submit button is disabled while isLoading
handleSubmitProfile(valid) ==
  /\ ~RenderDue
  /\ showProfileForm
  /\ ~registerIsLoading
  /\ valid
  /\ registerCall = Idle
  /\ registerIsLoading' = TRUE
  /\ registerCall' = [pc |-> "POST /api/profile", cookie |-> sessionCookie]
  /\ UNCHANGED <<nonRegisterVars, showProfileForm, registerShowSuccessDialog,
                 registerRendered, registerRenders, registerSigningUp>>

\* handleSubmitProfile after the fetch: the dialog on response.ok; finally
profileAnswered ==
  /\ registerCall # Idle
  /\ registerShowSuccessDialog' =
       IF respond(registerCall.pc, registerCall.cookie).status = 200
       THEN TRUE ELSE registerShowSuccessDialog
  /\ registerIsLoading' = FALSE
  /\ registerCall' = Idle
  /\ UNCHANGED <<nonRegisterVars, showProfileForm, registerRendered,
                 registerRenders, registerSigningUp>>

\* its catch: the fetch rejects; finally
profileThrew ==
  /\ registerCall # Idle
  /\ registerIsLoading' = FALSE
  /\ registerCall' = Idle
  /\ UNCHANGED <<nonRegisterVars, showProfileForm, registerShowSuccessDialog,
                 registerRendered, registerRenders, registerSigningUp>>

\* the success dialog's onClose
closeRegisterDialog ==
  /\ ~RenderDue
  /\ registerShowSuccessDialog
  /\ registerShowSuccessDialog' = FALSE
  /\ UNCHANGED <<nonRegisterVars, showProfileForm, registerIsLoading,
                 registerRendered, registerRenders, registerSigningUp,
                 registerCall>>

(* --------------------------- specification ---------------------------- *)

vars ==
  <<now, transactions, requests, sessionCookie, listing, lastCall, formVars,
    uiVars>>

Init ==
  /\ now = 0
  /\ transactions = {}
  /\ requests = << >>
  /\ sessionCookie = TRUE
  /\ listing = << >>
  /\ lastCall = NoCall
  /\ formData = BlankForm
  /\ errors = NoErrors
  /\ error = NoError
  /\ isLoading = FALSE
  /\ showConfirmDialog = FALSE
  /\ showSuccessDialog = FALSE
  /\ transactionId = NoTransactionId
  /\ clicked = "none"
  /\ user = null
  /\ isPending = TRUE
  /\ calls = [Mounted EXCEPT !["checkAuth"] = [pc |-> "GET /api/users/me", cookie |-> TRUE]]
  /\ sinceLogout = "no"
  /\ location = "/"
  /\ redirected = FALSE
  /\ pageIsLoading = TRUE
  /\ pageError = FALSE
  /\ notifications = NoNotifications
  /\ activeTab = "all"
  /\ notificationsOpen = FALSE
  /\ notificationsLoading = FALSE
  /\ notificationCalls = {}
  /\ messages = << >>
  /\ newMessage = << >>
  /\ chatOpen = FALSE
  /\ chatIsLoading = FALSE
  /\ isTyping = FALSE
  /\ chatCalls = {}
  /\ chatTimers = [typing |-> 0, response |-> 0]
  /\ chatDone = NoSend
  /\ chatNow = 0
  /\ theme = InitialTheme(NoTheme)
  /\ isDark = FALSE
  /\ themeEffectDue = TRUE
  /\ themeListener = FALSE
  /\ savedTheme = NoTheme
  /\ rootDark = FALSE
  /\ systemDark = FALSE
  /\ showProfileForm = FALSE
  /\ registerShowSuccessDialog = FALSE
  /\ registerIsLoading = FALSE
  /\ registerSigningUp = FALSE
  /\ registerCall = Idle
  /\ registerRendered = NotRendered
  /\ registerRenders = 0

\* the worker, whoever its clients are
Server ==
  \/ \E i \in DOMAIN requests : middleware(i)
  \/ \E i \in DOMAIN requests, suffix \in RandomSuffixes : postTransactions(i, suffix)
  \/ Tick

\* the user at the PaymentForm page
Form ==
  \/ \E v \in AmountInputs : handleInputChange("amount", v)
  \/ \E v \in CurrencyInputs : handleInputChange("currency", v)
  \/ \E v \in AccountInputs : handleInputChange("recipient_account", v)
  \/ \E v \in SwiftInputs : handleInputChange("swift_code", toUpperCase(v))
  \/ handleSubmit
  \/ cancelConfirm
  \/ confirmPayment
  \/ \E i \in DOMAIN requests : paymentSucceeded(i)
  \/ \E i \in DOMAIN requests : paymentRejected(i)
  \/ \E i \in DOMAIN requests : paymentThrew(i)
  \/ closeSuccessDialog

\* the rest of the browser session
Session ==
  \/ apiLogin
  \/ apiLogout
  \/ fetchData

NextApi ==
  \/ Server
  \/ \E call \in ApiCalls : apiPost(call)

NextForm ==
  \/ Server
  \/ Form

\* the browser session and the calls made in it
NextSession ==
  \/ Session
  \/ \E route \in Routes \ {"POST /api/login", "GET /api/logout"} : apiCall(route)

SpecSession == Init /\ [][NextSession]_vars

\* AuthProvider once mounted: its auth check, login() and logout()
Auth ==
  \/ checkAuthAnswered
  \/ checkAuthThrew
  \/ login
  \/ loginAnswered
  \/ loginUserAnswered
  \/ loginThrew
  \/ logout
  \/ logoutAnswered
  \/ logoutThrew

\* the router and the protected pages
Pages ==
  \/ \E path \in Paths \ {"/logout"} : navigate(path)
  \/ redirectToLoginEffect
  \/ fetchPage
  \/ fetchPageAnswered
  \/ fetchPageThrew
  \/ handleAccountDeletion
  \/ accountDeleted
  \/ accountDeletionFailed

NextAuth ==
  \/ loadApp
  \/ Auth
  \/ Pages

\* the client's session over page loads
SpecAuth == Init /\ [][NextAuth]_vars

\* AuthProvider over page loads
NextAuthProvider ==
  \/ loadApp
  \/ Auth

\* the same, every fetch checkAuth has started resolving or rejecting
SpecAuthProvider ==
  Init /\ [][NextAuthProvider]_vars /\ WF_vars(checkAuthAnswered \/ checkAuthThrew)

\* the steps that need no user: a fetch resolving or rejecting, an effect
Settle ==
  \/ checkAuthAnswered
  \/ checkAuthThrew
  \/ loginAnswered
  \/ loginUserAnswered
  \/ loginThrew
  \/ logoutAnswered
  \/ logoutThrew
  \/ redirectToLoginEffect
  \/ fetchPage
  \/ fetchPageAnswered
  \/ fetchPageThrew
  \/ accountDeleted
  \/ accountDeletionFailed

\* the same, every started fetch settling and every effect running
SpecAuthFair == SpecAuth /\ WF_vars(Settle)

NextNotifications ==
  \/ openNotifications
  \/ closeNotifications
  \/ \E ok \in BOOLEAN : fetchNotificationsDone(ok)
  \/ \E tab \in Tabs : setActiveTab(tab)
  \/ \E id \in DOMAIN notifications : markAsRead(id)
  \/ \E id \in DOMAIN notifications : archiveNotification(id)
  \/ \E call \in notificationCalls : notificationAnswered(call)
  \/ \E call \in notificationCalls : notificationThrew(call)

\* the notification center in a signed-in session
SpecNotifications == Init /\ [][NextNotifications]_vars

ThemeProvider ==
  \/ \E newTheme \in Range(Themes) : setTheme(newTheme)
  \/ toggleTheme
  \/ themeEffect
  \/ systemThemeChange

\* the two providers App mounts, over page loads
NextProviders ==
  \/ loadApp
  \/ ThemeProvider
  \/ Auth

SpecProviders == Init /\ [][NextProviders]_vars

Register ==
  \/ renderRegister
  \/ handleGoogleSignUp
  \/ \E valid \in BOOLEAN : handleSubmitProfile(valid)
  \/ profileAnswered
  \/ profileThrew
  \/ closeRegisterDialog

\* the Register page under AuthProvider
NextRegister ==
  \/ Register
  \/ Auth

\* React goes on rendering as long as a render is due
SpecRegister == Init /\ [][NextRegister]_vars /\ WF_vars(renderRegister)

LiveChat ==
  \/ chatTick
  \/ openLiveChat
  \/ closeLiveChat
  \/ \E ok \in BOOLEAN : fetchChatHistoryDone(ok)
  \/ \E text \in ChatInputs : setNewMessage(text)
  \/ sendNewMessage
  \/ handleFileUpload
  \/ \E call \in chatCalls : sendAnswered(call)
  \/ \E call \in chatCalls : sendThrew(call)
  \/ agentTyping
  \/ agentResponse

\* the chat in a session that may end and start again meanwhile
NextChat ==
  \/ LiveChat
  \/ apiLogin
  \/ apiLogout

SpecChat == Init /\ [][NextChat]_vars

Next ==
  \/ Server
  \/ Form
  \/ Session
  \/ \E route \in Routes \ {"POST /api/login", "GET /api/logout"} : apiCall(route)
  \/ \E call \in ApiCalls : apiPost(call)
  \/ NextAuth
  \/ NextNotifications
  \/ LiveChat
  \/ ThemeProvider
  \/ Register

Spec == Init /\ [][Next]_vars

\* the worker under API clients alone
SpecApi == Init /\ [][NextApi]_vars

\* the worker under one logged-in browser at the PaymentForm page
SpecForm == Init /\ [][NextForm]_vars

\* the user at the PaymentForm page of src/unnamed/part_007
Form7 ==
  \/ \E v \in AmountInputs : handleInputChange7("amount", v)
  \/ \E v \in CurrencyInputs : handleInputChange7("currency", v)
  \/ \E v \in AccountInputs : handleInputChange7("recipient_account", v)
  \/ \E v \in SwiftInputs : handleInputChange7("swift_code", toUpperCase(v))
  \/ handleSubmit7
  \/ cancelConfirm
  \/ confirmPayment7
  \/ \E i \in DOMAIN requests : paymentSucceeded7(i)
  \/ \E i \in DOMAIN requests : paymentFailed7(i)
  \/ closeSuccessDialog

NextForm7 ==
  \/ Server
  \/ Form7

SpecForm7 == Init /\ [][NextForm7]_vars

\* the user filling in amount and currency, which the summary is drawn from
NextSummary ==
  \/ \E c \in SummaryCents : handleInputChange("amount", AmountString(c))
  \/ \E v \in CurrencyInputs : handleInputChange("currency", v)

SpecSummary == Init /\ [][NextSummary]_vars

(* ------------------------------- claims ------------------------------- *)

\* the worker answered request i with success and a transaction id
Accepted(i) ==
  /\ requests[i].stage = "responded"
  /\ requests[i].status = 200

\* requests i and j carry the same idempotency key
SameKey(i, j) ==
  /\ i # j
  /\ requests[i].key # NoKey
  /\ requests[i].key = requests[j].key

\* the rows of the transactions table that hold transaction id tid
RowsOf(tid) == { t \in transactions : t.transaction_id = tid }

\* C1: two submissions with the same idempotency key and the same payload
\* yield exactly one Transaction, and both responses report the same
\* transaction id.
C1_IdempotentReplay ==
  \A i, j \in DOMAIN requests :
    (SameKey(i, j) /\ requests[i].body = requests[j].body
       /\ Accepted(i) /\ Accepted(j))
    => /\ requests[i].transaction_id = requests[j].transaction_id
       /\ Cardinality(RowsOf(requests[i].transaction_id)) = 1

\* C2: of two identical submissions (same key, same payload) that were
\* inside the handler at the same time, never both are answered as created:
\* the key lookup and the insert act as one atomic check-and-insert.
C2_AtomicCheckAndInsert ==
  \A i, j \in DOMAIN requests :
    (SameKey(i, j) /\ requests[i].body = requests[j].body
       /\ j \in requests[i].peers)
    => ~(Accepted(i) /\ Accepted(j))

\* C3: when an idempotency key is used with two different amounts, one of
\* the two submissions is answered with a ConflictError (409) and gets no
\* transaction id; the two are never both accepted.
C3_ConflictOnKeyReuse ==
  \A i, j \in DOMAIN requests :
    (SameKey(i, j) /\ requests[i].body.amount # requests[j].body.amount
       /\ requests[i].stage = "responded" /\ requests[j].stage = "responded"
       /\ requests[i].cookie /\ requests[j].cookie)
    => \E k \in {i, j} :
         /\ requests[k].status = 409
         /\ requests[k].transaction_id = NoId

\* C4: no two accepted submissions are ever issued the same transaction id.
C4_UniqueTransactionIds ==
  \A i, j \in DOMAIN requests :
    (i # j /\ Accepted(i) /\ Accepted(j))
    => requests[i].transaction_id # requests[j].transaction_id

\* C5: every accepted submission has exactly one row in the transactions
\* table, in status Pending, and GET /api/transactions lists it; a
\* submission that was not accepted has no row.
C5_DurableRecord ==
  \A i \in DOMAIN requests :
    requests[i].stage = "responded" =>
      IF requests[i].status = 200
      THEN /\ Cardinality(RowsOf(requests[i].transaction_id)) = 1
           /\ \A t \in RowsOf(requests[i].transaction_id) : t.status = "Pending"
           /\ \E k \in DOMAIN getTransactions(TRUE).body :
                getTransactions(TRUE).body[k].transaction_id
                  = requests[i].transaction_id
      ELSE RowsOf(requests[i].transaction_id) = {}

\* this step sends a POST /api/transactions from the PaymentForm page
FormPostSent ==
  /\ Len(requests') = Len(requests) + 1
  /\ requests'[Len(requests')].origin = "form"

\* this step opens the confirmation dialog
DialogOpened == ~showConfirmDialog /\ showConfirmDialog'

\* this step is the user declining in the open confirmation dialog
Declined ==
  /\ showConfirmDialog
  /\ ~showConfirmDialog'
  /\ clicked' = "cancel"

\* C6: the page sends POST /api/transactions only in a step in which the
\* user activates the confirm button of the open confirmation dialog, and
\* only for a request the Validator accepts as it stands at that moment.
C6_PostOnlyAfterValidationAndConfirm ==
  [][FormPostSent =>
       /\ showConfirmDialog
       /\ clicked' = "confirm"
       /\ validateForm(formData) = NoErrors
       /\ requests'[Len(requests')].body = parsedData(formData)]_vars

\* C7: when the user declines in the confirmation dialog, nothing but the
\* dialog changes: no POST is sent, no Transaction is created, no id is
\* shown, and the form, its errors and its loading state stay as they were.
C7_DeclineHasNoSideEffects ==
  [][Declined =>
       UNCHANGED <<now, transactions, requests, sessionCookie, listing, lastCall,
                   formData, errors, error, isLoading, showSuccessDialog,
                   transactionId, uiVars>>]_vars

\* C7 witness: a valid request was declined and nothing was sent for it
C7_Witness ==
  /\ clicked = "cancel"
  /\ ~showConfirmDialog
  /\ validateForm(formData) = NoErrors
  /\ requests = << >>
  /\ transactions = {}
  /\ transactionId = NoTransactionId

\* C8: a payment request the Validator rejects has no effect: the page does
\* not open the confirmation dialog for it and sends no POST for it, and the
\* worker issues no transaction id and creates no Transaction for it.
C8_RejectedHasNoEffect ==
  /\ [][(validateForm(formData) # NoErrors \/ ~amountInputValid(formData.amount))
          => (~DialogOpened /\ ~FormPostSent)]_vars
  /\ [](\A i \in DOMAIN requests :
          (requests[i].stage = "responded" /\ requests[i].issues # {})
          => /\ requests[i].transaction_id = NoId
             /\ transactions = {})

\* request i has passed authMiddleware and the validator
Validated(i) ==
  /\ requests[i].cookie
  /\ requests[i].stage \in {"handler", "responded"}

\* the amount has more than 2 fractional digits
MoreThanTwoDecimals(a) == a.isNum /\ a.v % 10 # 0

SwiftGrammar(s) ==
  /\ Len(s) \in {8, 11}
  /\ \A k \in DOMAIN s :
       IF k <= 4 THEN s[k] \in Range(UpperSeq)
       ELSE IF k <= 6 THEN s[k] \in Range(UpperSeq)
       ELSE s[k] \in Range(UpperSeq) \cup Range(DigitSeq)

C11_LowercaseSwiftAccepted ==
  \A i \in DOMAIN requests :
    (Validated(i) /\ SwiftGrammar(toUpperCase(requests[i].body.swift_code)))
      => \A e \in requests[i].issues : e.path # "swift_code"

\* the account is a digit-only string of 8 to 12 characters
AccountWellFormed(s) ==
  /\ Len(s) >= AccountMinLen
  /\ Len(s) <= AccountMaxLen
  /\ \A k \in DOMAIN s : s[k] \in Range(DigitSeq)

\* C12: the validator accepts a request only if its recipient account is a
\* digit-only string of 8 to 12 characters; every other account is rejected.
C12_AccountDigitsOnly ==
  \A i \in DOMAIN requests :
    Accepted(i) => AccountWellFormed(requests[i].body.recipient_account)

\* C13: the validator rejects every amount that is not a positive number and
\* every amount above the per-transaction ceiling: an accepted request has
\* a positive amount of at most the ceiling.
C13_PositiveBelowCeiling ==
  \A i \in DOMAIN requests :
    Accepted(i) =>
      /\ requests[i].body.amount.isNum
      /\ requests[i].body.amount.v > 0
      /\ requests[i].body.amount.v <= MaxAmount * 1000

\* field f of the form data fd breaks a rule of the page's validator
FormFieldFails(fd, f) ==
  CASE f = "amount" ->
         \/ fd.amount = << >>
         \/ ~parseFloat(fd.amount).isNum
         \/ parseFloat(fd.amount).v <= 0
    [] f = "recipient_account" -> fd.recipient_account = << >>
    [] f = "swift_code" -> ~SwiftGrammar(fd.swift_code)

\* this step is a submit of the form: the data stays, and the errors change
\* or the confirmation dialog opens
Submitted ==
  /\ formData' = formData
  /\ requests' = requests
  /\ errors' # errors \/ DialogOpened

\* the fields of a posted body that break a rule of the worker's validator
BodyFieldsFailing(b) ==
  (IF b.amount.isNum /\ b.amount.v > 0 /\ ~MoreThanTwoDecimals(b.amount)
   THEN {} ELSE {"amount"})
  \cup (IF b.currency \in Currencies THEN {} ELSE {"currency"})
  \cup (IF Len(b.recipient_account) >= 1 THEN {} ELSE {"recipient_account"})
  \cup (IF SwiftGrammar(b.swift_code) THEN {} ELSE {"swift_code"})

\* C14: a validation failure names every field that failed, not just the
\* first, each with a message: after a submit of the form every failing field
\* and no other has a message, and the worker's 400 has an issue, with a
\* message, for every failing field and for no other.
C14_EveryFailedFieldReported ==
  /\ [][Submitted =>
          \A f \in ErrorFields : FormFieldFails(formData, f) <=> errors'[f] # ""]_vars
  /\ [](\A i \in DOMAIN requests :
          (Validated(i) /\ requests[i].stage = "responded") =>
             /\ { e.path : e \in requests[i].issues } = BodyFieldsFailing(requests[i].body)
             /\ \A e \in requests[i].issues : e.message # "")

\* C14 witness: a submit with a blank account and the SWIFT code AB12 left
\* a message on both fields
C14_Witness ==
  /\ formData.recipient_account = << >>
  /\ formData.swift_code = SwiftShort
  /\ errors["recipient_account"] = "Recipient account is required"
  /\ errors["swift_code"] = "Invalid SWIFT code format"
  /\ ~showConfirmDialog

\* the three lines an engine shows agree with exact arithmetic in cents:
\* the amount is the principal, the fee is 2% of it to the nearest cent,
\* and the total is the amount plus the fee
SummaryExact(fd, engine) ==
  LET s == PaymentSummary(fd, engine)
      p == parseFloat(fd.amount).v \div 10
  IN /\ s.amount = p
     /\ 100 * s.fee - 2 * p <= 50
     /\ 2 * p - 100 * s.fee <= 50
     /\ s.total = s.amount + s.fee

ReceiptFields(i) ==
  IF Accepted(i)
  THEN {"success", "transaction_id"}
       \cup { "data." \o f : f \in DOMAIN requests[i].data[1] }
  ELSE {}

\* C16: the answer to an accepted submission is a receipt with the new
\* transaction id and the initial status Pending.
C16_ReceiptWithPendingStatus ==
  \A i \in DOMAIN requests :
    Accepted(i) =>
      /\ requests[i].transaction_id # NoId
      /\ \E f \in {"status", "data.status"} :
           /\ f \in ReceiptFields(i)
           /\ f = "data.status" => requests[i].data[1]["status"] = "Pending"

\* this step is the page taking note that its request i has failed: the
\* answer was not OK, or the fetch threw before an answer came
FailureNoted(i) ==
  /\ Awaited(i)
  /\ requests[i].stage \in {"sent", "responded"}
  /\ requests[i].stage = "responded" => requests[i].status # 200
  /\ requests'[i] = Consumed

\* C17: every POST /api/transactions of the page that fails ends with an
\* error shown to the user, with no success dialog opened and no
\* transaction id set.
C17_FailureShown ==
  [][\A i \in DOMAIN requests :
       FailureNoted(i) =>
         /\ error' # NoError
         /\ showSuccessDialog' = showSuccessDialog
         /\ transactionId' = transactionId]_vars

\* C18: every endpoint other than POST /api/login answers a request without
\* the session cookie with 401 and does not serve its own answer.
C18_AllEndpointsRequireSession ==
  (lastCall.route \in Routes \ {"POST /api/login"} /\ ~lastCall.cookie)
    => (lastCall.status = 401 /\ ~lastCall.served)

LoginStep == lastCall' # lastCall /\ lastCall'.route = "POST /api/login"

LogoutStep == lastCall' # lastCall /\ lastCall'.route = "GET /api/logout"

MeStep == lastCall' # lastCall /\ lastCall'.route = "GET /api/users/me"

\* C19: POST /api/login leaves the session established and GET /api/logout
\* leaves it terminated, nothing else changes it, and GET /api/users/me
\* returns the user (200) while the session is established and 401
\* Unauthorized while it is not.
C19_LoginLogoutSession ==
  [][/\ LoginStep => sessionCookie'
     /\ LogoutStep => ~sessionCookie'
     /\ ~(LoginStep \/ LogoutStep) => sessionCookie' = sessionCookie
     /\ MeStep =>
          /\ sessionCookie =>
               (lastCall'.status = 200 /\ lastCall'.served)
          /\ ~sessionCookie =>
               (lastCall'.status = 401 /\ ~lastCall'.served)]_vars

\* the dashboard was loaded in a session, the session was ended, and
\* GET /api/users/me is then answered 401
C19_Witness ==
  /\ listing # << >>
  /\ ~sessionCookie
  /\ lastCall = Answered("GET /api/users/me", FALSE)
  /\ lastCall.status = 401

\* C20: whenever the PaymentForm validator lets the confirmation dialog
\* open, the server's PaymentSchema accepts the payment as it stands, and no
\* request the page posts is answered with a validation error.
C20_ClientAcceptedIsServerAccepted ==
  /\ [][DialogOpened => PaymentSchema(parsedData(formData)) = {}]_vars
  /\ [](\A i \in DOMAIN requests :
          (requests[i].origin = "form" /\ requests[i].stage = "responded")
            => (requests[i].status # 400 /\ requests[i].issues = {}))

\* a POST /api/transactions of the page whose outcome the page still awaits
InFlight(i) ==
  /\ requests[i].origin = "form"
  /\ requests[i].stage # "consumed"

\* C21: at most one POST /api/transactions of the page is in flight at any
\* time, the page shows isLoading while it is, and no step starts a POST
\* while isLoading.
C21_OnePostInFlight ==
  /\ [][FormPostSent => ~isLoading]_vars
  /\ [](/\ Cardinality({ i \in DOMAIN requests : InFlight(i) }) <= 1
        /\ (\E i \in DOMAIN requests : InFlight(i)) => isLoading)

\* a second payment is being sent after the first was answered and consumed
C21_Witness ==
  /\ Len(requests) = 2
  /\ requests[1] = Consumed
  /\ InFlight(2)
  /\ isLoading
  /\ submitDisabled

\* C22: once logout() has completed and the application is loaded again,
\* the user stays null as long as login() is not called, whether or not
\* the GET /api/logout request succeeded.
C22_StaysLoggedOut ==
  sinceLogout = "before" => user = null

\* C23: once POST /api/profile/delete has answered OK and the page has
\* navigated on, the session comes to an end: user is null and the
\* session cookie is cleared.
C23_DeletionEndsSession ==
  (location = "/logout") ~> (user = null /\ ~sessionCookie)

\* this step is fetchNotifications replacing the list
Refetched == notificationsLoading /\ ~notificationsLoading'

\* C24: between two fetches of the list, a notification that has become
\* archived stays archived, whatever the order in which the pending
\* mark-as-read and archive requests are answered.
C24_ArchivedStaysArchived ==
  [][~Refetched =>
       \A id \in DOMAIN notifications :
         notifications[id] = "archived" => notifications'[id] = "archived"]_vars

\* the messages of the list that are the unsaved message of a call
Optimistic(msgs, created_at) ==
  { i \in DOMAIN msgs :
      msgs[i].id = NoMessageId /\ msgs[i].created_at = created_at }

\* C25: a sendMessage call that ends without success (rejected fetch or a
\* response that is not OK) leaves none of its optimistic message in the
\* list and the other messages as they were; one that succeeds leaves the
\* list with that message replaced by a saved one and nothing else changed.
C25_OptimisticMessageSettled ==
  [][chatDone' # chatDone =>
       IF chatDone'.outcome = "ok"
       THEN /\ Len(messages') = Len(messages)
            /\ Cardinality({ i \in DOMAIN messages : messages'[i] # messages[i] }) = 1
            /\ \A i \in DOMAIN messages :
                 messages'[i] # messages[i] =>
                   /\ i \in Optimistic(messages, chatDone'.created_at)
                   /\ messages'[i].id = "msg"
       ELSE /\ Optimistic(messages', chatDone'.created_at) = {}
            /\ messages' = SelectSeq(messages, LAMBDA m :
                   ~(m.id = NoMessageId /\ m.created_at = chatDone'.created_at))]_vars

\* this step is a protected page's effect navigating to /login
RedirectIssued == redirected' /\ location' # location

\* C26: a protected page redirects to /login only when the auth check has
\* finished and user is null, and it renders its protected content only
\* when the check has finished and there is a user.
C26_ProtectedPagesGuarded ==
  /\ [][RedirectIssued =>
         (location \in ProtectedPaths /\ ~isPending /\ user = null)]_vars
  /\ [](\A path \in ProtectedPaths :
          View(path) = "content" => (user # null /\ ~isPending))

\* on a protected page the user logged out and the page redirected
C26_Witness ==
  /\ redirected
  /\ location = "/login"
  /\ sinceLogout = "done"
  /\ user = null
  /\ ~isPending

\* C27: once the theme effect has run, isDark is true exactly when theme is
\* 'dark', or theme is 'auto' and the system prefers dark; and a change of
\* the system's colour scheme under 'light' or 'dark' leaves isDark alone.
C27_IsDarkFollowsTheme ==
  /\ [](~themeEffectDue =>
          (isDark <=> (theme = "dark" \/ (theme = "auto" /\ systemDark))))
  /\ [][(systemDark' # systemDark /\ ~themeEffectDue /\ theme \in {"light", "dark"})
         => isDark' = isDark]_vars

\* the effect has run for 'light' and the system has turned dark since
C27_Witness ==
  /\ theme = "light"
  /\ ~themeEffectDue
  /\ savedTheme = "light"
  /\ systemDark
  /\ ~isDark
  /\ ~rootDark

\* C28: rendering the Register page settles: from every combination of user,
\* showProfileForm and showSuccessDialog a second pass updates nothing, no
\* render takes more than one extra pass, and a render that is due is
\* followed by a committed one.
C28_RegisterRenderSettles ==
  /\ [](\A u \in {null, mockUser}, success \in BOOLEAN, profileForm \in BOOLEAN :
          RegisterRender(u, success, profileForm).again =>
            ~RegisterRender(u, success,
               RegisterRender(u, success, profileForm).showProfileForm).again)
  /\ [](registerRenders <= 1)
  /\ RenderDue ~> ~RenderDue

\* the profile form was shown by the render-time update, submitted and
\* its success dialog is rendered
C28_Witness ==
  /\ user # null
  /\ showProfileForm
  /\ registerShowSuccessDialog
  /\ ~RenderDue
  /\ registerRenders = 0

\* this step ends the auth check of the mount
CheckEnded == calls["checkAuth"] # Idle /\ calls'["checkAuth"] = Idle

\* this step is a page load, which mounts AuthProvider anew
Loaded == calls'["checkAuth"] # Idle /\ user' = null /\ isPending'

====
